---- MODULE Spec2Model ----
(***************************************************************************)
(* Chorus: task lifecycle, JSON event monitor, status poller and Claude    *)
(* hook callbacks, modelled as one state machine over the Task table and   *)
(* the tmux sessions.                                                      *)
(*                                                                         *)
(* The asyncio event loop runs every API handler, every hook handler, one  *)
(* poll cycle and the handling of one event without suspension (none of    *)
(* them awaits inside), so each is one atomic action.                      *)
(*                                                                         *)
(* Task fields that no transition reads (title, description, priority,     *)
(* timestamps, result, last_output, prompt_history, stack_cli_id,          *)
(* permission_policy) are not part of the state.                           *)
(***************************************************************************)
EXTENDS Naturals, Sequences, FiniteSets

\* ------------------------------------------------------------------ values
None == "None"

\* The task ids of the model: two tasks, so that lookups by session id and
\* "first running task" have a choice to make.
Tasks == {"t1", "t2"}

\* Agent (Claude) session ids carried by events and hook payloads.
SessionIds == {"s1"}

TaskStatus == {"pending", "running", "waiting", "completed", "failed"}
ClaudeStatus == {"stopped", "starting", "idle", "busy", "waiting"}

\* HTTP outcomes of the API and hook handlers.
OK == "ok"
Err400 == "400"
Err500 == "500"
Ignored == "ignored"

VARIABLES
    tasks,             \* the Task table: [Tasks -> Task record]
    session,           \* tmux has-session, per task
    use_json_mode,     \* config.monitoring.use_json_mode (fixed at start-up)
    response,          \* outcome of the last API or hook request
    watchers,          \* JsonMonitor._tasks: the task has a live watcher
    recent_tool_uses,  \* JsonMonitor._recent_tool_uses, per task
    stack_discovered,  \* JsonMonitor._stack_discovered, per task
    hook_calls,        \* GitButler calls made while handling the last event
    tool_use_log,      \* the tool_use events of the task's scrollback, in order
    correction_count,  \* StatusPoller._correction_count
    orphan_cleanups,   \* StatusPoller._orphan_cleanups
    frozen_warnings,   \* StatusPoller._frozen_warnings
    last_busy_check,   \* StatusPoller._last_busy_check (its key set)
    poll_window,       \* observer: a run of consecutive poll cycles
    parsed,            \* rows given to JsonEventParser.parse_output, and its result
    script,            \* observer: progress through the end-to-end scenario
    scrollback,        \* the rows of the task's pane, oldest first
    printed,           \* the events the agent has printed, in order, per task
    last_event_count,  \* JsonMonitor._last_event_count, per task
    handled,           \* the events given to _handle_event, in order, per task
    monitor_running,   \* JsonMonitor._running
    start_loops,       \* number of JsonMonitor.start coroutines alive
    watcher_tasks,     \* the asyncio tasks created for a task, in order
    poller_running,    \* StatusPoller._running
    poll_loops,        \* number of StatusPoller._poll_loop coroutines alive
    last_batch         \* observer: the new events of the last watcher cycle

monitorVars == <<watchers, recent_tool_uses, stack_discovered, hook_calls, tool_use_log>>
pollerVars ==
    <<correction_count, orphan_cleanups, frozen_warnings, last_busy_check, poll_window>>
parserVars == <<parsed>>
engineVars ==
    <<scrollback, printed, last_event_count, handled, monitor_running,
      start_loops, watcher_tasks>>
loopVars == <<poller_running, poll_loops>>
batchVars == <<last_batch>>
otherVars == <<parserVars, script, engineVars, loopVars, batchVars>>
vars == <<tasks, session, use_json_mode, response, monitorVars, pollerVars, otherVars>>

_session_id_for_task(t) == "chorus-task-" \o t

generate_stack_name(t) == "task-" \o t

\* A freshly created Task row (create_task; model defaults).
NewTask ==
    [status |-> "pending",
     claude_status |-> "stopped",
     claude_session_id |-> None,
     tmux_session |-> None,
     permission_prompt |-> None,
     stack_name |-> None,
     claude_restarts |-> 0,
     continuation_count |-> 0]

\* No run of poll cycles is being observed.
NoWindow ==
    [kind |-> "none", task |-> None, cycles |-> 0, stored |-> None,
     corrections |-> 0, orphans |-> 0]

\* Nothing has been given to the parser.
NoParse ==
    [kind |-> "none", source |-> <<>>, lines |-> <<>>, events |-> <<>>, done |-> TRUE]

\* The services after construction and the Task table after create_task.
InitProgram ==
    /\ tasks = [t \in Tasks |-> NewTask]
    /\ session = [t \in Tasks |-> FALSE]
    /\ use_json_mode \in BOOLEAN
    /\ response = None
    /\ watchers = [t \in Tasks |-> FALSE]
    /\ recent_tool_uses = [t \in Tasks |-> <<>>]
    /\ stack_discovered = [t \in Tasks |-> FALSE]
    /\ hook_calls = <<>>
    /\ tool_use_log = [t \in Tasks |-> <<>>]
    /\ correction_count = 0
    /\ orphan_cleanups = 0
    /\ frozen_warnings = 0
    /\ last_busy_check = {}
    /\ poll_window = NoWindow

\* The scenario has not begun; on tells whether every step so far followed it.
NoScript == [step |-> 0, on |-> TRUE]

\* JsonMonitor.__init__, and panes that show nothing.
InitEngine ==
    /\ scrollback = [t \in Tasks |-> <<>>]
    /\ printed = [t \in Tasks |-> <<>>]
    /\ last_event_count = [t \in Tasks |-> 0]
    /\ handled = [t \in Tasks |-> <<>>]
    /\ monitor_running = FALSE
    /\ start_loops = 0
    /\ watcher_tasks = [t \in Tasks |-> <<>>]

\* No watcher cycle has found new events.
NoBatch == [task |-> None, events |-> <<>>]

\* StatusPoller.__init__
InitPoller ==
    /\ poller_running = FALSE
    /\ poll_loops = 0

Init ==
    /\ InitProgram
    /\ parsed = NoParse
    /\ script = NoScript
    /\ InitEngine
    /\ InitPoller
    /\ last_batch = NoBatch

\* ------------------------------------------------------------------ tmux
\* TmuxService.session_exists
session_exists(t) == session[t]

\* Mutant of kill_task_session: the session is left alive.
kill_task_session_noop(t) == session

\* TmuxService.kill_task_session; SessionNotFoundError is swallowed by the
\* callers on the teardown path, so the session is gone afterwards either way.
kill_task_session(t) == [session EXCEPT ![t] = FALSE]

\* ------------------------------------------------------------------ API
Running(t) == tasks[t].status \in {"running", "waiting"}

\* POST /api/tasks/{id}/start.  gb is the outcome of gitbutler.create_stack,
\* config_ok whether ensure_hooks / create_task_claude_config return normally.
start_task(t, gb, config_ok) ==
    /\ UNCHANGED <<use_json_mode, monitorVars, pollerVars>>
    /\ IF tasks[t].status # "pending"
       THEN /\ response' = Err400
            /\ UNCHANGED <<tasks, session>>
       ELSE IF gb = "error"
       THEN /\ response' = Err500
            /\ UNCHANGED <<tasks, session>>
       ELSE /\ session' = [session EXCEPT ![t] = TRUE]
            /\ IF config_ok
               THEN /\ tasks' = [tasks EXCEPT ![t] =
                          [@ EXCEPT !.stack_name = generate_stack_name(t),
                                    !.tmux_session = _session_id_for_task(t),
                                    !.status = "running",
                                    !.claude_status = "starting"]]
                    /\ response' = OK
               ELSE /\ UNCHANGED tasks
                    /\ response' = Err500

\* POST /api/tasks/{id}/restart-claude
restart_claude(t) ==
    /\ UNCHANGED <<session, use_json_mode, monitorVars, pollerVars>>
    /\ IF ~Running(t)
       THEN /\ response' = Err400
            /\ UNCHANGED tasks
       ELSE IF ~session_exists(t)
       THEN /\ response' = Err500
            /\ UNCHANGED tasks
       ELSE /\ tasks' = [tasks EXCEPT ![t] =
                  [@ EXCEPT !.claude_status = "starting",
                            !.claude_session_id = None,
                            !.claude_restarts = @ + 1,
                            !.permission_prompt = None,
                            !.status = IF @ = "waiting" THEN "running" ELSE @]]
            /\ response' = OK

\* POST /api/tasks/{id}/continue.  The Task is committed before Claude is
\* relaunched, so the error paths after the commit keep the update.
continue_task(t) ==
    /\ UNCHANGED <<session, use_json_mode, monitorVars, pollerVars>>
    /\ IF \/ tasks[t].status # "running"
          \/ tasks[t].claude_status # "stopped"
          \/ tasks[t].claude_session_id = None
       THEN /\ response' = Err400
            /\ UNCHANGED tasks
       ELSE /\ tasks' = [tasks EXCEPT ![t] =
                  [@ EXCEPT !.continuation_count = @ + 1,
                            !.claude_status = "starting",
                            !.permission_prompt = None]]
            /\ response' = IF ~use_json_mode THEN Err400
                           ELSE IF ~session_exists(t) THEN Err500
                           ELSE OK

\* A send that does not notice the missing session.
send_message_unchecked(t) ==
    /\ UNCHANGED <<tasks, session, use_json_mode, monitorVars, pollerVars>>
    /\ response' = IF ~Running(t) THEN Err400
                   ELSE IF tasks[t].claude_status # "idle" THEN Err400
                   ELSE OK

\* POST /api/tasks/{id}/send
send_message(t) ==
    /\ UNCHANGED <<tasks, session, use_json_mode, monitorVars, pollerVars>>
    /\ response' = IF ~Running(t) THEN Err400
                   ELSE IF tasks[t].claude_status # "idle" THEN Err400
                   ELSE IF ~session_exists(t) THEN Err500
                   ELSE OK

\* POST /api/tasks/{id}/respond
respond_to_permission(t) ==
    /\ UNCHANGED <<session, use_json_mode, monitorVars, pollerVars>>
    /\ IF tasks[t].status # "waiting"
       THEN /\ response' = Err400
            /\ UNCHANGED tasks
       ELSE IF ~session_exists(t)
       THEN /\ response' = Err500
            /\ UNCHANGED tasks
       ELSE /\ tasks' = [tasks EXCEPT ![t].permission_prompt = None]
            /\ response' = OK

\* Mutant of complete_task: the status check is missing.
complete_task_unguarded(t) ==
    /\ UNCHANGED <<use_json_mode, monitorVars, pollerVars>>
    /\ session' = kill_task_session(t)
    /\ tasks' = [tasks EXCEPT ![t] =
          [@ EXCEPT !.status = "completed",
                    !.claude_status = "stopped",
                    !.claude_session_id = None]]
    /\ response' = OK

\* POST /api/tasks/{id}/complete
complete_task(t) ==
    /\ UNCHANGED <<use_json_mode, monitorVars, pollerVars>>
    /\ IF ~Running(t)
       THEN /\ response' = Err400
            /\ UNCHANGED <<tasks, session>>
       ELSE /\ session' = kill_task_session(t)
            /\ tasks' = [tasks EXCEPT ![t] =
                  [@ EXCEPT !.status = "completed",
                            !.claude_status = "stopped",
                            !.claude_session_id = None]]
            /\ response' = OK

\* POST /api/tasks/{id}/fail.  delete_stack is the request flag, gb_ok whether
\* gitbutler.delete_stack returns normally.
fail_task(t, delete_stack, gb_ok) ==
    /\ UNCHANGED <<use_json_mode, monitorVars, pollerVars>>
    /\ IF tasks[t].status \notin {"running", "waiting", "pending"}
       THEN /\ response' = Err400
            /\ UNCHANGED <<tasks, session>>
       ELSE /\ session' = kill_task_session(t)
            /\ tasks' = [tasks EXCEPT ![t] =
                  [@ EXCEPT !.stack_name =
                                IF delete_stack /\ @ # None /\ gb_ok
                                THEN None ELSE @,
                            !.status = "failed",
                            !.claude_status = "stopped",
                            !.claude_session_id = None]]
            /\ response' = OK

\* --------------------------------------------------------------- recovery
\* TaskRecovery.recover_from_tmux_failure.  restart_ok is whether
\* tmux.restart_claude returns normally when the session exists.
recover_from_tmux_failure(t, restart_ok) ==
    /\ UNCHANGED <<session, use_json_mode, response, monitorVars, pollerVars>>
    /\ IF ~session_exists(t) \/ ~restart_ok
       THEN tasks' = [tasks EXCEPT ![t] =
                [@ EXCEPT !.status = "failed", !.claude_status = "stopped"]]
       ELSE tasks' = [tasks EXCEPT ![t] =
                [@ EXCEPT !.claude_status = "starting", !.claude_restarts = @ + 1]]

\* ------------------------------------------------------------ environment
\* The tmux session is killed or crashes outside the orchestrator.
SessionDies(t) ==
    /\ session[t]
    /\ session' = [session EXCEPT ![t] = FALSE]
    /\ UNCHANGED <<tasks, use_json_mode, response, monitorVars, pollerVars>>

\* ---------------------------------------------------------------- monitor
\* An allow-list that also holds a tool that only reads.
FileEditToolsWithRead == {"Edit", "Write", "MultiEdit", "Read"}

\* Tool names for which the monitor calls the GitButler hooks.
FileEditTools == {"Edit", "Write", "MultiEdit"}

\* Size of the per-task tool_use buffer.
RecentToolUses == 10

\* An event handler without the "if task was waiting" branch.
collapse_waiting_never(rec) == rec

\* "If task was waiting, set back to running" (session_start, tool_use,
\* text and assistant events).
collapse_waiting(rec) ==
    IF rec.status = "waiting"
    THEN [rec EXCEPT !.status = "running", !.permission_prompt = None]
    ELSE rec

\* A buffer that keeps one entry fewer.
push_tool_use_short(buf, data) ==
    LET all == Append(buf, data)
        n == Len(all)
    IN  IF n > RecentToolUses - 1
        THEN SubSeq(all, n - RecentToolUses + 2, n)
        ELSE all

\* self._recent_tool_uses[task_id].append(event.data), then [-10:]
push_tool_use(buf, data) ==
    LET all == Append(buf, data)
        n == Len(all)
    IN  IF n > RecentToolUses
        THEN SubSeq(all, n - RecentToolUses + 1, n)
        ELSE all

\* for tu in reversed(buffer): the index of the most recent tool_use whose id
\* is tool_use_id, 0 when there is none.
find_tool_use(buf, tool_use_id) ==
    LET hits == {i \in 1..Len(buf) : buf[i].id = tool_use_id}
    IN  IF hits = {} THEN 0
        ELSE CHOOSE i \in hits : \A j \in hits : j <= i

\* The tool_use a tool_result is paired with calls the post-tool hook.
is_successful_edit(tu, ev) ==
    /\ tu.toolName \in FileEditTools
    /\ tu.file_path # None
    /\ ~ev.isError

\* The GitButler calls made for a tool_result paired with a successful edit,
\* in order; gb gives the outcome of each call (an exception in one of them
\* leaves the try block).
post_tool_calls(rec, tu, discovered, gb) ==
    LET post == <<[call |-> "post_tool", file_path |-> tu.file_path,
                   tool_name |-> tu.toolName]>>
        disc == IF gb.post = "ok" /\ ~discovered
                THEN <<[call |-> "discover_stack", file_path |-> tu.file_path,
                        tool_name |-> tu.toolName]>>
                ELSE <<>>
        found == disc # <<>> /\ gb.stack \notin {None, "raise"}
        stack == IF found THEN gb.stack ELSE rec.stack_name
        commit == IF /\ gb.post = "ok"
                     /\ ~(disc # <<>> /\ gb.stack = "raise")
                     /\ stack # None
                  THEN <<[call |-> "commit_to_stack", file_path |-> stack,
                          tool_name |-> tu.toolName]>>
                  ELSE <<>>
    IN  [calls |-> post \o disc \o commit, found |-> found, stack |-> stack]

\* A handler in which an exception of the post-tool hook ends the handling
\* of the tool_result.
handle_event_task_post_fatal(rec, ev, buf, discovered, gb) ==
    CASE ev.type = "tool_use" ->
            collapse_waiting([rec EXCEPT !.claude_status = "busy"])
      [] ev.type = "tool_result" ->
            LET i == find_tool_use(buf, ev.toolUseId)
            IN  IF i # 0 /\ is_successful_edit(buf[i], ev) /\ gb.post = "raise"
                THEN rec
                ELSE [rec EXCEPT !.claude_status = "idle"]
      [] OTHER -> rec

\* A handler that takes every event it does not know for agent output.
handle_event_task_other_busy(rec, ev, buf, discovered, gb) ==
    CASE ev.type = "permission_request" ->
            [rec EXCEPT !.status = "waiting",
                        !.claude_status = "waiting",
                        !.permission_prompt = ev.prompt]
      [] OTHER -> collapse_waiting([rec EXCEPT !.claude_status = "busy"])

\* The Task after _handle_event; buf and discovered are the monitor's
\* buffer and stack flag for the task before the event.
handle_event_task(rec, ev, buf, discovered, gb) ==
    CASE ev.type = "session_start" ->
            IF ev.session_id # None
            THEN collapse_waiting([rec EXCEPT !.claude_session_id = ev.session_id,
                                              !.claude_status = "idle"])
            ELSE rec
      [] ev.type = "tool_use" ->
            collapse_waiting([rec EXCEPT !.claude_status = "busy"])
      [] ev.type = "tool_result" ->
            LET i == find_tool_use(buf, ev.toolUseId)
            IN  IF i # 0 /\ is_successful_edit(buf[i], ev)
                THEN [rec EXCEPT
                        !.stack_name = post_tool_calls(rec, buf[i], discovered, gb).stack,
                        !.claude_status = "idle"]
                ELSE [rec EXCEPT !.claude_status = "idle"]
      [] ev.type = "result" ->
            [rec EXCEPT !.claude_session_id =
                            IF ev.sessionId # None /\ @ = None THEN ev.sessionId ELSE @,
                        !.claude_status = "idle"]
      [] ev.type \in {"text", "assistant"} ->
            collapse_waiting([rec EXCEPT !.claude_status = "busy"])
      [] ev.type = "permission_request" ->
            [rec EXCEPT !.status = "waiting",
                        !.claude_status = "waiting",
                        !.permission_prompt = ev.prompt]
      [] OTHER -> rec

\* A monitor that makes no GitButler call.
handle_event_calls_none(rec, ev, buf, discovered, gb) == <<>>

\* The GitButler calls made by _handle_event for the event.
handle_event_calls(rec, ev, buf, discovered, gb) ==
    CASE ev.type = "tool_use" ->
            IF ev.toolName \in FileEditTools /\ ev.file_path # None
            THEN <<[call |-> "pre_tool", file_path |-> ev.file_path,
                    tool_name |-> ev.toolName]>>
            ELSE <<>>
      [] ev.type = "tool_result" ->
            LET i == find_tool_use(buf, ev.toolUseId)
            IN  IF i # 0 /\ is_successful_edit(buf[i], ev)
                THEN post_tool_calls(rec, buf[i], discovered, gb).calls
                ELSE <<>>
      [] OTHER -> <<>>

\* A monitor that keeps the tool_use events of all tasks in one buffer.
_handle_event_one_buffer(t, ev, gb) ==
    LET shared == recent_tool_uses["t1"] \o recent_tool_uses["t2"]
    IN  /\ tasks' = [tasks EXCEPT ![t] =
              handle_event_task(@, ev, shared, stack_discovered[t], gb)]
        /\ hook_calls' =
              handle_event_calls(tasks[t], ev, shared, stack_discovered[t], gb)
        /\ recent_tool_uses' =
              IF ev.type = "tool_use"
              THEN [recent_tool_uses EXCEPT ![t] =
                      push_tool_use(@, [id |-> ev.id, toolName |-> ev.toolName,
                                        file_path |-> ev.file_path])]
              ELSE recent_tool_uses
        /\ stack_discovered' =
              IF ev.type = "tool_result"
              THEN LET i == find_tool_use(shared, ev.toolUseId)
                   IN  IF /\ i # 0
                          /\ is_successful_edit(shared[i], ev)
                          /\ post_tool_calls(tasks[t], shared[i],
                                             stack_discovered[t], gb).found
                       THEN [stack_discovered EXCEPT ![t] = TRUE]
                       ELSE stack_discovered
              ELSE stack_discovered

\* JsonMonitor._handle_event for task t.
_handle_event(t, ev, gb) ==
    /\ tasks' = [tasks EXCEPT ![t] =
          handle_event_task(@, ev, recent_tool_uses[t], stack_discovered[t], gb)]
    /\ hook_calls' =
          handle_event_calls(tasks[t], ev, recent_tool_uses[t], stack_discovered[t], gb)
    /\ recent_tool_uses' =
          IF ev.type = "tool_use"
          THEN [recent_tool_uses EXCEPT ![t] =
                  push_tool_use(@, [id |-> ev.id, toolName |-> ev.toolName,
                                    file_path |-> ev.file_path])]
          ELSE recent_tool_uses
    /\ stack_discovered' =
          IF ev.type = "tool_result"
          THEN LET i == find_tool_use(recent_tool_uses[t], ev.toolUseId)
               IN  IF /\ i # 0
                      /\ is_successful_edit(recent_tool_uses[t][i], ev)
                      /\ post_tool_calls(tasks[t], recent_tool_uses[t][i],
                                         stack_discovered[t], gb).found
                   THEN [stack_discovered EXCEPT ![t] = TRUE]
                   ELSE stack_discovered
          ELSE stack_discovered

\* JsonMonitor.start, one iteration of the supervising loop: a watcher is
\* created for every running or waiting task that has none.
monitor_start ==
    /\ watchers' = [t \in Tasks |-> watchers[t] \/ Running(t)]
    /\ UNCHANGED <<tasks, session, use_json_mode, response, recent_tool_uses,
                   stack_discovered, hook_calls, tool_use_log, pollerVars>>

\* JsonMonitor._monitor_task, one cycle of the watcher of task t that finds
\* the session gone: capture_json_events raises "... not found" and the
\* watcher leaves its loop.
_monitor_task_not_found(t) ==
    /\ watchers[t]
    /\ ~session_exists(t)
    /\ watchers' = [watchers EXCEPT ![t] = FALSE]
    /\ UNCHANGED <<tasks, session, use_json_mode, response, recent_tool_uses,
                   stack_discovered, hook_calls, tool_use_log, pollerVars>>

\* JsonMonitor._monitor_task, one cycle of the watcher of task t whose
\* capture holds the new event ev (the agent has appended ev to the
\* scrollback since the previous cycle).
_monitor_task(t, ev, gb) ==
    /\ watchers[t]
    /\ session_exists(t)
    /\ _handle_event(t, ev, gb)
    /\ tool_use_log' =
          IF ev.type = "tool_use"
          THEN [tool_use_log EXCEPT ![t] =
                  Append(@, [id |-> ev.id, toolName |-> ev.toolName,
                             file_path |-> ev.file_path])]
          ELSE tool_use_log
    /\ UNCHANGED <<session, use_json_mode, response, watchers, pollerVars>>

\* ----------------------------------------------------------------- poller
\* What capture_output shows in its last lines: nothing at all, or text that
\* matches a waiting pattern, an idle pattern, both or neither.
Outputs ==
    {[empty |-> TRUE, waiting |-> FALSE, idle |-> FALSE]} \cup
    {[empty |-> FALSE, waiting |-> w, idle |-> i] : w, i \in BOOLEAN}

IdleOutput == [empty |-> FALSE, waiting |-> FALSE, idle |-> TRUE]

\* A detector that looks for the idle prompt first.
detect_status_idle_first(t, out) ==
    IF ~session_exists(t) THEN None
    ELSE IF out.empty THEN "stopped"
    ELSE IF out.idle THEN "idle"
    ELSE IF out.waiting THEN "waiting"
    ELSE "busy"

\* StatusDetector.detect_status: None when the session does not exist.
detect_status(t, out) ==
    IF ~session_exists(t) THEN None
    ELSE IF out.empty THEN "stopped"
    ELSE IF out.waiting THEN "waiting"
    ELSE IF out.idle THEN "idle"
    ELSE "busy"

\* The tasks a poll cycle looks at.
polled(t) == Running(t) /\ tasks[t].tmux_session # None

\* A poll cycle that counts the orphan every time it finds the session gone.
is_orphan_cleanup_every_cycle(rec, detected) == detected = None

\* The poll cycle cleans the task up as an orphan.
is_orphan_cleanup(rec, detected) ==
    detected = None /\ rec.claude_status # "stopped"

\* A poll cycle that counts a correction every time it detects a status.
is_correction_every_cycle(rec, detected) == detected # None

\* The poll cycle corrects the stored status of the task.
is_correction(rec, detected) ==
    detected # None /\ detected # rec.claude_status

\* A poll cycle that leaves the status of the task to the hooks.
poll_task_agent_only(rec, detected) ==
    IF detected = None
    THEN IF is_orphan_cleanup(rec, detected)
         THEN [rec EXCEPT !.claude_status = "stopped", !.claude_session_id = None]
         ELSE rec
    ELSE [rec EXCEPT !.claude_status = detected]

\* The Task after the body of the poll loop, given the detected status.
poll_task(rec, detected) ==
    IF detected = None
    THEN IF is_orphan_cleanup(rec, detected)
         THEN [rec EXCEPT !.claude_status = "stopped", !.claude_session_id = None]
         ELSE rec
    ELSE IF is_correction(rec, detected)
    THEN [rec EXCEPT !.claude_status = detected,
                     !.status = IF detected = "waiting" THEN "waiting"
                                ELSE IF @ = "waiting" /\ detected = "idle"
                                THEN "running"
                                ELSE @]
    ELSE rec

\* A poll cycle that never forgets that it saw a task busy.
_poll_once_keeps_tracking(out, over) ==
    LET seen == {t \in Tasks : polled(t)}
        det(t) == detect_status(t, out[t])
    IN  /\ tasks' = [t \in Tasks |->
              IF t \in seen THEN poll_task(tasks[t], det(t)) ELSE tasks[t]]
        /\ orphan_cleanups' = orphan_cleanups +
              Cardinality({t \in seen : is_orphan_cleanup(tasks[t], det(t))})
        /\ correction_count' = correction_count +
              Cardinality({t \in seen : is_correction(tasks[t], det(t))})
        /\ frozen_warnings' = frozen_warnings +
              Cardinality({t \in seen : det(t) = "busy" /\ t \in last_busy_check /\ over[t]})
        /\ last_busy_check' = last_busy_check \cup {t \in seen : det(t) = "busy"}
        /\ UNCHANGED <<session, use_json_mode, response, monitorVars>>

\* StatusPoller._poll_once.  out[t] is the output captured for task t and
\* over[t] whether the time since task t was first seen busy exceeds
\* frozen_threshold.
_poll_once(out, over) ==
    LET seen == {t \in Tasks : polled(t)}
        det(t) == detect_status(t, out[t])
    IN  /\ tasks' = [t \in Tasks |->
              IF t \in seen THEN poll_task(tasks[t], det(t)) ELSE tasks[t]]
        /\ orphan_cleanups' = orphan_cleanups +
              Cardinality({t \in seen : is_orphan_cleanup(tasks[t], det(t))})
        /\ correction_count' = correction_count +
              Cardinality({t \in seen : is_correction(tasks[t], det(t))})
        /\ frozen_warnings' = frozen_warnings +
              Cardinality({t \in seen : det(t) = "busy" /\ t \in last_busy_check /\ over[t]})
        /\ last_busy_check' =
              (last_busy_check \cup {t \in seen : det(t) = "busy"})
                 \ {t \in seen : det(t) \notin {None, "busy"}}
        /\ UNCHANGED <<session, use_json_mode, response, monitorVars>>

\* ------------------------------------------------------------------ hooks
\* The prompt stored by the PermissionRequest hook.
HookPrompt == "Claude is waiting for permission"

\* find_task_by_session_id: the rows a lookup by Claude session id can return.
find_task_by_session_id(sid) == {t \in Tasks : tasks[t].claude_session_id = sid}

\* Mutant of find_session_start_task: the lookup does not filter by status.
find_session_start_task_any(with_cwd) == Tasks

\* find_task_by_tmux_session, then find_running_task: the rows SessionStart
\* can map the session to (a running task first, else a waiting one).
find_session_start_task(with_cwd) ==
    LET running == {t \in Tasks : tasks[t].status = "running"}
    IN  IF with_cwd /\ running # {} THEN running
        ELSE {t \in Tasks : Running(t)}

hookFrame == <<session, use_json_mode, monitorVars, pollerVars>>

\* A hook request that finds no task.
hook_ignored ==
    /\ response' = Ignored
    /\ UNCHANGED tasks

\* POST /api/hooks/sessionstart
hook_session_start(sid, with_cwd) ==
    /\ UNCHANGED hookFrame
    /\ IF find_session_start_task(with_cwd) = {}
       THEN hook_ignored
       ELSE \E t \in find_session_start_task(with_cwd) :
              /\ tasks' = [tasks EXCEPT ![t] =
                    [@ EXCEPT !.claude_session_id = sid, !.claude_status = "idle"]]
              /\ response' = OK

\* POST /api/hooks/stop
hook_stop(sid) ==
    /\ UNCHANGED hookFrame
    /\ IF find_task_by_session_id(sid) = {}
       THEN hook_ignored
       ELSE \E t \in find_task_by_session_id(sid) :
              /\ tasks' = [tasks EXCEPT ![t] =
                    collapse_waiting([@ EXCEPT !.claude_status = "idle"])]
              /\ response' = OK

\* POST /api/hooks/permissionrequest
hook_permission_request(sid) ==
    /\ UNCHANGED hookFrame
    /\ IF find_task_by_session_id(sid) = {}
       THEN hook_ignored
       ELSE \E t \in find_task_by_session_id(sid) :
              /\ tasks' = [tasks EXCEPT ![t] =
                    [@ EXCEPT !.claude_status = "waiting",
                              !.status = "waiting",
                              !.permission_prompt = HookPrompt]]
              /\ response' = OK

\* POST /api/hooks/sessionend
hook_session_end(sid) ==
    /\ UNCHANGED hookFrame
    /\ IF find_task_by_session_id(sid) = {}
       THEN hook_ignored
       ELSE \E t \in find_task_by_session_id(sid) :
              /\ tasks' = [tasks EXCEPT ![t] =
                    [@ EXCEPT !.claude_session_id = None, !.claude_status = "stopped"]]
              /\ response' = OK

\* POST /api/hooks/notification
hook_notification(sid) ==
    /\ UNCHANGED hookFrame
    /\ IF find_task_by_session_id(sid) = {}
       THEN hook_ignored
       ELSE \E t \in find_task_by_session_id(sid) :
              /\ tasks' = [tasks EXCEPT ![t].claude_status =
                    IF @ # "waiting" THEN "idle" ELSE @]
              /\ response' = OK

\* ------------------------------------------------------------------ inputs
MaxRestarts == 1
MaxCount == 1
MaxToolUses == 1

StackOutcomes == {"created", "exists", "error"}

\* Outcomes of the GitButler calls of a tool_result: the post-tool hook
\* returns or raises; stack discovery finds a stack, finds none or raises.
GbOutcomes == [post : {"ok", "raise"}, stack : {None, "stack-7", "raise"}]
GbOk == [post |-> "ok", stack |-> None]

SessionStartEvents ==
    {[type |-> "session_start", session_id |-> s] : s \in SessionIds \cup {None}}
ResultEvents ==
    {[type |-> "result", sessionId |-> s] : s \in SessionIds \cup {None}}
ToolUseEvents(ids, tools, paths) ==
    {[type |-> "tool_use", id |-> i, toolName |-> n, file_path |-> f] :
        i \in ids, n \in tools, f \in paths}
ToolResultEvents(ids) ==
    {[type |-> "tool_result", toolUseId |-> i, isError |-> e] :
        i \in ids, e \in BOOLEAN}
PlainEvents ==
    {[type |-> y] : y \in {"text", "assistant", "user", "system", "error"}}
PermissionEvents ==
    {[type |-> "permission_request", prompt |-> "Permission requested"]}

\* The events of the lifecycle specification: every event type, with one
\* shape of tool_use.
LifecycleEvents ==
    SessionStartEvents \cup ResultEvents \cup PlainEvents \cup PermissionEvents
    \cup ToolUseEvents({"tu1"}, {"Read"}, {None})
    \cup ToolResultEvents({"tu1"})

\* --------------------------------------------------------- specification
\* The steps below take the set T of tasks that requests, events and
\* captures are about.

MonitorStep(T) ==
    \/ monitor_start
    \/ \E t \in T : _monitor_task_not_found(t)
    \/ \E t \in T, ev \in LifecycleEvents :
          /\ ev.type = "tool_use" => Len(tool_use_log[t]) < MaxToolUses
          /\ _monitor_task(t, ev, GbOk)

PollStep(T) ==
    \E out \in [T -> Outputs], over \in [T -> BOOLEAN] :
        /\ correction_count < MaxCount
        /\ orphan_cleanups < MaxCount
        /\ frozen_warnings < MaxCount
        /\ _poll_once(out, over)
        /\ UNCHANGED poll_window

HookStep ==
    \/ \E sid \in SessionIds, c \in BOOLEAN : hook_session_start(sid, c)
    \/ \E sid \in SessionIds : hook_stop(sid)
    \/ \E sid \in SessionIds : hook_permission_request(sid)
    \/ \E sid \in SessionIds : hook_session_end(sid)
    \/ \E sid \in SessionIds : hook_notification(sid)

ApiStep(T) ==
    \/ \E t \in T, gb \in StackOutcomes, c \in BOOLEAN : start_task(t, gb, c)
    \/ \E t \in T : tasks[t].claude_restarts < MaxRestarts /\ restart_claude(t)
    \/ \E t \in T : tasks[t].continuation_count < MaxRestarts /\ continue_task(t)
    \/ \E t \in T : send_message(t)
    \/ \E t \in T : respond_to_permission(t)
    \/ \E t \in T : complete_task(t)
    \/ \E t \in T, d \in BOOLEAN, g \in BOOLEAN : fail_task(t, d, g)

\* The lifecycle of one task under every component: the API, the hooks, the
\* monitor, the poller and the death of its session.  The other task stays
\* pending.
One == {"t1"}

Next ==
    \/ ApiStep(One) /\ UNCHANGED otherVars
    \/ HookStep /\ UNCHANGED otherVars
    \/ MonitorStep(One) /\ UNCHANGED otherVars
    \/ PollStep(One) /\ UNCHANGED otherVars
    \/ \E t \in One : SessionDies(t) /\ UNCHANGED otherVars

Spec == Init /\ [][Next]_vars

\* The same with failure recovery run on the task.
NextRecovery ==
    \/ Next
    \/ \E t \in One, r \in BOOLEAN :
          /\ tasks[t].claude_restarts < MaxRestarts
          /\ recover_from_tmux_failure(t, r)
          /\ UNCHANGED otherVars

SpecRecovery == Init /\ [][NextRecovery]_vars

\* ------------------------------------------------------------------ claims
Terminal == {"completed", "failed"}

LegalEdges ==
    {<<"pending", "running">>, <<"running", "waiting">>, <<"waiting", "running">>,
     <<"running", "completed">>, <<"waiting", "completed">>,
     <<"pending", "failed">>, <<"running", "failed">>, <<"waiting", "failed">>}

\* C1: under the API operations, the monitor, the poller and the hooks every
\* change of a task's status follows one of the eight legal edges.
C1_LegalStatusEdges ==
    [][\A t \in Tasks :
          tasks'[t].status # tasks[t].status
          => <<tasks[t].status, tasks'[t].status>> \in LegalEdges]_vars

\* A task completed while it was waiting for permission (edge waiting ->
\* completed, after pending -> running -> waiting).
C1_Witness ==
    /\ tasks["t1"].status = "completed"
    /\ tasks["t1"].permission_prompt # None
    /\ correction_count > 0

\* C2: start on a task that is not pending, complete on a task that is not
\* running or waiting, and fail on a completed or failed task answer 400 and
\* leave the Task table and the tmux sessions as they were.
C2_RejectedRequests ==
    [][\A t \in Tasks :
          /\ (/\ tasks[t].status # "pending"
              /\ \E gb \in StackOutcomes, c \in BOOLEAN : start_task(t, gb, c))
             => (response' = Err400 /\ UNCHANGED <<tasks, session>>)
          /\ (~Running(t) /\ complete_task(t))
             => (response' = Err400 /\ UNCHANGED <<tasks, session>>)
          /\ (/\ tasks[t].status \in Terminal
              /\ \E d \in BOOLEAN, g \in BOOLEAN : fail_task(t, d, g))
             => (response' = Err400 /\ UNCHANGED <<tasks, session>>)]_vars

\* A request was rejected on a task that is already failed.
C2_Witness ==
    /\ tasks["t1"].status = "failed"
    /\ response = Err400

\* C3 (as claimed): a step that makes a task completed or failed leaves it
\* without a tmux session, without agent session id and without permission
\* prompt.
C3_TerminalCleanup ==
    [][\A t \in Tasks :
          (tasks[t].status \notin Terminal /\ tasks'[t].status \in Terminal)
          => /\ ~session'[t]
             /\ tasks'[t].claude_session_id = None
             /\ tasks'[t].permission_prompt = None]_vars

\* C4: a pending, completed or failed task has claude_status stopped.
C4_StoppedWhenInactive ==
    \A t \in Tasks :
        tasks[t].status \in {"pending", "completed", "failed"}
        => tasks[t].claude_status = "stopped"

\* A task that was restarted and mapped to a session has been failed.
C4_Witness ==
    /\ tasks["t1"].status = "failed"
    /\ tasks["t1"].claude_restarts > 0
    /\ watchers["t1"]

\* C5 (as claimed): tmux_session is set exactly for the tasks between start
\* and complete/fail, the tasks whose session is believed to exist.
C5_SessionIdIffBelieved ==
    \A t \in Tasks : (tasks[t].tmux_session # None) <=> Running(t)

\* ------------------------------------------------- pairing specification
\* One task is started and watched; its agent prints tool_use events of two
\* shapes (an edit of a.py with id tu1, a read with id tu2), tool_result
\* events for both ids and text, in any order.  The scrollback holds at
\* most MaxToolUseLog tool_use events, enough for an edit to leave the
\* monitor's buffer, and at most MaxEdits of them are edits.
MaxToolUseLog == 11
MaxEdits == 2

EditUse == [type |-> "tool_use", id |-> "tu1", toolName |-> "Edit", file_path |-> "a.py"]
ReadUse == [type |-> "tool_use", id |-> "tu2", toolName |-> "Read", file_path |-> None]

PairingEvents ==
    {EditUse, ReadUse} \cup ToolResultEvents({"tu1", "tu2"}) \cup {[type |-> "text"]}

PairingGb == {g \in GbOutcomes : g.stack = None}

EditsPrinted(t) ==
    Cardinality({i \in 1..Len(tool_use_log[t]) : tool_use_log[t][i].id = EditUse.id})

NextPairing ==
    \/ start_task("t1", "created", TRUE) /\ UNCHANGED otherVars
    \/ monitor_start /\ UNCHANGED otherVars
    \/ \E ev \in PairingEvents, gb \in PairingGb :
          /\ ev.type = "tool_use" => Len(tool_use_log["t1"]) < MaxToolUseLog
          /\ ev = EditUse => EditsPrinted("t1") < MaxEdits
          /\ _monitor_task("t1", ev, gb)
          /\ UNCHANGED otherVars

SpecPairing == Init /\ [][NextPairing]_vars

\* The position in the scrollback of the latest tool_use with the id, 0 when
\* the agent printed none.
LatestUse(t, id) ==
    LET hits == {i \in 1..Len(tool_use_log[t]) : tool_use_log[t][i].id = id}
    IN  IF hits = {} THEN 0 ELSE CHOOSE i \in hits : \A j \in hits : j <= i

\* The tool_use events the agent printed after position i.
LaterUses(t, i) == Len(tool_use_log[t]) - i

PostToolCalls(calls) == {i \in DOMAIN calls : calls[i].call = "post_tool"}

\* The monitor handles the non-error tool_result ev of a file edit printed
\* earlier, and calls the post-tool hook exactly once, with the path of the
\* edit.
PairedOnce(t, ev, within) ==
    LET i == LatestUse(t, ev.toolUseId)
    IN  (/\ \E gb \in PairingGb : _monitor_task(t, ev, gb)
         /\ ~ev.isError
         /\ i # 0
         /\ tool_use_log[t][i].toolName \in FileEditTools
         /\ tool_use_log[t][i].file_path # None
         /\ LaterUses(t, i) <= within)
        => /\ Cardinality(PostToolCalls(hook_calls')) = 1
           /\ \A k \in PostToolCalls(hook_calls') :
                 hook_calls'[k].file_path = tool_use_log[t][i].file_path

\* C6 as stated: a non-error tool_result for the id of an earlier file edit
\* makes the monitor call the post-tool hook exactly once with the path of
\* that edit, however many other tool_use events came in between.
C6_PairedAnyDistance ==
    [][\A ev \in ToolResultEvents({"tu1", "tu2"}) :
          PairedOnce("t1", ev, MaxToolUseLog)]_vars

\* C6 amended: a non-error tool_result for the id of an earlier file edit
\* makes the monitor call the post-tool hook exactly once with the path of
\* that edit, when at most RecentToolUses - 1 other tool_use events came in
\* between; other events in between do not count.
C6_PairedWithinBuffer ==
    [][\A ev \in ToolResultEvents({"tu1", "tu2"}) :
          PairedOnce("t1", ev, RecentToolUses - 1)]_vars

\* The edit is the oldest entry of a full buffer, reads and other events
\* followed it, and its tool_result has just called the post-tool hook.
C6_Witness ==
    /\ Len(recent_tool_uses["t1"]) = RecentToolUses
    /\ LatestUse("t1", "tu1") = 1
    /\ hook_calls # <<>>
    /\ hook_calls[1].call = "post_tool"
    /\ hook_calls[1].file_path = "a.py"

\* C7: a tool_use, text or assistant event handled while the task is waiting
\* sets its status to running, one handled while it is running leaves it
\* running, and handling the same event again gives the same status.
C7_WaitingCollapses ==
    [][\A t \in Tasks, ev \in {e \in LifecycleEvents :
                                  e.type \in {"tool_use", "text", "assistant"}} :
          _monitor_task(t, ev, GbOk) =>
             /\ tasks[t].status \in {"waiting", "running"}
             /\ tasks'[t].status = "running"
             /\ handle_event_task(tasks'[t], ev, recent_tool_uses'[t],
                                  stack_discovered'[t], GbOk).status = "running"]_vars

\* A tool_use arrived after the poller had found the permission prompt on the
\* screen of a task no hook or request has touched: the task runs again.
C7_Witness ==
    /\ tasks["t1"].status = "running"
    /\ tasks["t1"].claude_status = "busy"
    /\ tasks["t1"].permission_prompt = None
    /\ tasks["t1"].claude_session_id = None
    /\ tasks["t1"].claude_restarts = 0
    /\ correction_count = 1
    /\ Len(tool_use_log["t1"]) = 1
    /\ hook_calls = <<>>

\* ---------------------------------------------- poll window specification
\* One task is started; hooks, poll cycles and the death of its session
\* bring it to any stored agent status.  Then a run of consecutive poll
\* cycles is observed, with nothing else acting in between: either every
\* capture of the run shows the idle prompt ("idle"), or the session is
\* absent for the whole run ("absent").  poll_window remembers the stored
\* status and the counters at the start of the run and counts its cycles.
MaxCycles == 3

open_window(kind, t) ==
    /\ poll_window.kind = "none"
    /\ tasks[t].tmux_session # None
    /\ IF kind = "idle"
       THEN tasks[t].status = "running" /\ session_exists(t)
       ELSE Running(t) /\ ~session_exists(t)
    /\ poll_window' = [kind |-> kind, task |-> t, cycles |-> 0,
                       stored |-> tasks[t].claude_status,
                       corrections |-> correction_count,
                       orphans |-> orphan_cleanups]
    /\ UNCHANGED <<tasks, session, use_json_mode, response, monitorVars,
                   correction_count, orphan_cleanups, frozen_warnings,
                   last_busy_check>>

window_poll ==
    /\ poll_window.kind # "none"
    /\ poll_window.cycles < MaxCycles
    /\ \E out \in [One -> Outputs], over \in [One -> BOOLEAN] :
          /\ poll_window.kind = "idle" => out[poll_window.task] = IdleOutput
          /\ _poll_once(out, over)
    /\ poll_window' = [poll_window EXCEPT !.cycles = @ + 1]

NextWindow ==
    \/ /\ poll_window.kind = "none"
       /\ \/ \E gb \in StackOutcomes, c \in BOOLEAN : start_task("t1", gb, c)
          \/ HookStep
          \/ PollStep(One)
          \/ SessionDies("t1")
       /\ UNCHANGED otherVars
    \/ \E k \in {"idle", "absent"} : open_window(k, "t1") /\ UNCHANGED otherVars
    \/ window_poll /\ UNCHANGED otherVars

SpecWindow == Init /\ [][NextWindow]_vars

\* C8 as stated: when every capture of a running task shows the idle prompt
\* and only the poller writes its agent status, then after two poll cycles
\* the stored agent status is idle and stays idle, and the correction
\* counter has grown by exactly one over the run.
C8_IdleExactlyOne ==
    (poll_window.kind = "idle" /\ poll_window.cycles >= 2) =>
        /\ tasks[poll_window.task].claude_status = "idle"
        /\ correction_count = poll_window.corrections + 1

\* C8 amended: under the same conditions the stored agent status is idle
\* after the first poll cycle and stays idle, and over the run the correction
\* counter has grown by exactly one when the stored agent status was not
\* idle at its start, and not at all when it already was idle.
C8_IdleConverges ==
    (poll_window.kind = "idle" /\ poll_window.cycles >= 1) =>
        /\ tasks[poll_window.task].claude_status = "idle"
        /\ tasks[poll_window.task].status = "running"
        /\ correction_count = poll_window.corrections +
              (IF poll_window.stored = "idle" THEN 0 ELSE 1)

\* Several idle captures in a row corrected a stored busy status once.
C8_Witness ==
    /\ poll_window.kind = "idle"
    /\ poll_window.cycles >= 2
    /\ poll_window.stored = "busy"
    /\ tasks["t1"].claude_status = "idle"
    /\ correction_count = poll_window.corrections + 1

\* C9 as stated: over consecutive poll cycles that find the session of a
\* running or waiting task absent, the orphan counter grows by exactly one
\* in total.
C9_OrphanExactlyOne ==
    (poll_window.kind = "absent" /\ poll_window.cycles >= 1) =>
        orphan_cleanups = poll_window.orphans + 1

\* C9 amended: over such cycles the orphan counter grows by one in total, on
\* the first cycle, when the stored agent status was not stopped before that
\* cycle, and does not grow when it already was stopped.
C9_OrphanAtMostOnce ==
    (poll_window.kind = "absent" /\ poll_window.cycles >= 1) =>
        orphan_cleanups = poll_window.orphans +
            (IF poll_window.stored = "stopped" THEN 0 ELSE 1)

\* Several poll cycles in a row found the session of a task absent whose
\* stored agent status was not stopped, and counted one orphan.
C9_Witness ==
    /\ poll_window.kind = "absent"
    /\ poll_window.cycles >= 2
    /\ poll_window.stored # "stopped"
    /\ orphan_cleanups = poll_window.orphans + 1

\* C10: after a poll cycle that finds the session of a running or waiting
\* task absent, the stored agent status is stopped and the agent session id
\* is null, whatever was stored before.
C10_OrphanCleared ==
    (poll_window.kind = "absent" /\ poll_window.cycles >= 1) =>
        /\ tasks[poll_window.task].claude_status = "stopped"
        /\ tasks[poll_window.task].claude_session_id = None

\* ----------------------------------------------------------------- parser
\* Text is a sequence of characters.  The JSON of the model has objects,
\* strings and blanks: an object is "{", then strings and objects with any
\* number of blanks around them, then "}"; a string is a quote, characters
\* other than the quote, and a quote.  The value of a text is the text
\* without the blanks outside its strings.
Blank == " "
Quote == "\""
Chars == {"{", "}", Quote, "a", Blank}

RECURSIVE lstrip(_)
lstrip(s) == IF s # <<>> /\ Head(s) = Blank THEN lstrip(Tail(s)) ELSE s

RECURSIVE rstrip(_)
rstrip(s) ==
    IF s # <<>> /\ s[Len(s)] = Blank THEN rstrip(SubSeq(s, 1, Len(s) - 1)) ELSE s

\* str.strip
strip(s) == rstrip(lstrip(s))

\* json.loads raised JSONDecodeError, or parse_line returned None.
JSONDecodeError == [ok |-> FALSE, data |-> <<>>]

\* The scan of json.loads from position i: depth counts the open objects,
\* instr tells whether i is inside a string, acc is the value read so far.
RECURSIVE json_scan(_, _, _, _, _)
json_scan(s, i, depth, instr, acc) ==
    IF i > Len(s)
    THEN IF depth = 0 /\ ~instr /\ acc # <<>>
         THEN [ok |-> TRUE, data |-> acc]
         ELSE JSONDecodeError
    ELSE LET c == s[i]
         IN  IF instr
             THEN json_scan(s, i + 1, depth, c # Quote, Append(acc, c))
             ELSE IF c = Blank
             THEN json_scan(s, i + 1, depth, FALSE, acc)
             ELSE IF depth = 0
             THEN IF c = "{" /\ acc = <<>>
                  THEN json_scan(s, i + 1, 1, FALSE, Append(acc, c))
                  ELSE JSONDecodeError
             ELSE IF c = "{"
             THEN json_scan(s, i + 1, depth + 1, FALSE, Append(acc, c))
             ELSE IF c = "}"
             THEN json_scan(s, i + 1, depth - 1, FALSE, Append(acc, c))
             ELSE IF c = Quote
             THEN json_scan(s, i + 1, depth, TRUE, Append(acc, c))
             ELSE JSONDecodeError

json_loads(s) == json_scan(s, 1, 0, FALSE, <<>>)

\* JsonEventParser.parse_line
parse_line(line) ==
    LET l == strip(line)
    IN  IF l = <<>> \/ l[1] # "{" THEN JSONDecodeError ELSE json_loads(l)

\* event = self.parse_line(current_json); if event: events.append(event)
append_event(events, current_json) ==
    IF parse_line(current_json).ok
    THEN Append(events, parse_line(current_json).data)
    ELSE events

\* A parser that forgets the pending text when a row starts with "{".
start_json_drop(events, current_json) == events

\* "Start of new JSON object": the previous text, if any, is parsed.
start_json(events, current_json) ==
    IF current_json # <<>> THEN append_event(events, current_json) ELSE events

\* The loop of parse_output from row i on.
RECURSIVE parse_rows(_, _, _, _)
parse_rows(lines, i, current_json, events) ==
    IF i > Len(lines)
    THEN IF current_json # <<>> THEN append_event(events, current_json) ELSE events
    ELSE LET stripped == strip(lines[i])
         IN  IF stripped # <<>> /\ stripped[1] = "{"
             THEN parse_rows(lines, i + 1, stripped, start_json(events, current_json))
             ELSE IF current_json # <<>> /\ stripped # <<>>
             THEN IF json_loads(current_json).ok
                  THEN parse_rows(lines, i + 1, <<>>,
                                  append_event(events, current_json))
                  ELSE parse_rows(lines, i + 1, current_json \o stripped, events)
             ELSE IF stripped = <<>> /\ current_json # <<>>
             THEN parse_rows(lines, i + 1, <<>>, append_event(events, current_json))
             ELSE parse_rows(lines, i + 1, current_json, events)

\* JsonEventParser.parse_output on the rows of output.split('\n').
parse_output(lines) == parse_rows(lines, 1, <<>>, <<>>)

\* The rows a terminal of n columns shows for one line of text.
wrap(text, n) ==
    [k \in 1..((Len(text) + n - 1) \div n) |->
        SubSeq(text, (k - 1) * n + 1,
               IF k * n < Len(text) THEN k * n ELSE Len(text))]

\* ---------------------------------------------------- parser specification
\* parse_output is applied to the rows of one wrapped event, for every event
\* text of at most MaxText characters and every width, and to sequences of
\* at most MaxLines lines, each an event or a line that is no JSON.
MaxText == 5
MaxLines == 4

Events ==
    {e \in UNION {[1..n -> Chars] : n \in 2..MaxText} :
        e[1] = "{" /\ e[Len(e)] = "}" /\ json_loads(e).ok}

EventLines == {<<"{", "}">>, <<"{", Quote, "a", Quote, "}">>}

\* Blank lines, plain text and lines that begin with "{" without being JSON.
NoiseLines ==
    {<<>>, <<"a">>, <<Quote, "a", Quote, "}">>,
     <<"{">>, <<"{", "a">>, <<"{", Quote, "a">>}

\* The values of the lines that are events, in order.
RECURSIVE events_of(_)
events_of(lines) ==
    IF lines = <<>> THEN <<>>
    ELSE IF Head(lines) \in EventLines
    THEN <<json_loads(Head(lines)).data>> \o events_of(Tail(lines))
    ELSE events_of(Tail(lines))

WrapInputs ==
    {[kind |-> "wrap", source |-> <<json_loads(e).data>>, lines |-> wrap(e, n),
      events |-> <<>>, done |-> FALSE] : e \in Events, n \in 1..MaxText}

NoiseInputs ==
    {[kind |-> "noise", source |-> events_of(l), lines |-> l,
      events |-> <<>>, done |-> FALSE] :
        l \in UNION {[1..n -> EventLines \cup NoiseLines] : n \in 1..MaxLines}}

InitParser ==
    /\ InitProgram
    /\ use_json_mode
    /\ parsed \in WrapInputs \cup NoiseInputs
    /\ script = NoScript
    /\ InitEngine
    /\ InitPoller
    /\ last_batch = NoBatch

parse ==
    /\ ~parsed.done
    /\ parsed' = [parsed EXCEPT !.events = parse_output(parsed.lines), !.done = TRUE]
    /\ UNCHANGED <<tasks, session, use_json_mode, response, monitorVars, pollerVars,
                   script, engineVars, loopVars, batchVars>>

SpecParser == InitParser /\ [][parse]_vars

\* C11: the rows of one event wrapped at any width parse to exactly that
\* event.
C11_WrapRoundTrip ==
    (parsed.done /\ parsed.kind = "wrap") => parsed.events = parsed.source

\* b can be obtained from a by deleting elements.
RECURSIVE IsSubseq(_, _)
IsSubseq(b, a) ==
    IF b = <<>> THEN TRUE
    ELSE IF a = <<>> THEN FALSE
    ELSE IF Head(a) = Head(b) THEN IsSubseq(Tail(b), Tail(a))
    ELSE IsSubseq(b, Tail(a))

\* C12: with lines that are no JSON between the events, the result of
\* parse_output holds every event, unchanged and in the original order.
C12_NoiseTolerated ==
    (parsed.done /\ parsed.kind = "noise") => IsSubseq(parsed.source, parsed.events)

\* Two different events with text and a broken "{" line around them were
\* parsed to exactly those two events.
C12_Witness ==
    /\ parsed.done
    /\ parsed.kind = "noise"
    /\ Len(parsed.lines) = 4
    /\ Len(parsed.source) = 2
    /\ parsed.source[1] # parsed.source[2]
    /\ \E i \in 1..4 : parsed.lines[i] = <<"{", "a">>
    /\ \E i \in 1..4 : parsed.lines[i] = <<"a">>
    /\ parsed.events = parsed.source

\* -------------------------------------------------- scenario specification
\* The requests and events of the end-to-end scenario, applied to one task
\* in any order and any number of times.  script counts the steps taken in
\* the order of the scenario from the start; the first step out of order
\* switches it off.
GbStack7 == [post |-> "ok", stack |-> "stack-7"]
SessionStart_s1 == [type |-> "session_start", session_id |-> "s1"]
EditResult == [type |-> "tool_result", toolUseId |-> EditUse.id, isError |-> FALSE]
ScriptSteps == 1..9

ScriptStep(k) ==
    CASE k = 1 -> start_task("t1", "created", TRUE)
      [] k = 2 -> monitor_start
      [] k = 3 -> _monitor_task("t1", SessionStart_s1, GbStack7)
      [] k = 4 -> /\ Len(tool_use_log["t1"]) < MaxToolUses
                  /\ _monitor_task("t1", EditUse, GbStack7)
      [] k = 5 -> _monitor_task("t1", EditResult, GbStack7)
      [] k = 6 -> \E ev \in PermissionEvents : _monitor_task("t1", ev, GbStack7)
      [] k = 7 -> respond_to_permission("t1")
      [] k = 8 -> _monitor_task("t1", SessionStart_s1, GbStack7)
      [] k = 9 -> complete_task("t1")

NextScenario ==
    \E k \in ScriptSteps :
        /\ ScriptStep(k)
        /\ script' = IF script.on /\ k = script.step + 1
                     THEN [step |-> k, on |-> TRUE]
                     ELSE [step |-> 0, on |-> FALSE]
        /\ UNCHANGED <<parserVars, engineVars, loopVars, batchVars>>

SpecScenario == Init /\ [][NextScenario]_vars

CallsOf(name) == {i \in DOMAIN hook_calls : hook_calls[i].call = name}

\* What the scenario produces after its step k.
ScenarioResult(k) ==
    LET task == tasks["t1"]
    IN  CASE k = 1 -> task.status = "running" /\ session["t1"]
          [] k = 3 -> /\ task.status = "running"
                      /\ task.claude_status = "idle"
                      /\ task.claude_session_id = "s1"
          [] k = 4 -> /\ task.claude_status = "busy"
                      /\ Len(hook_calls) = 1
                      /\ hook_calls[1].call = "pre_tool"
                      /\ hook_calls[1].file_path = "a.py"
          [] k = 5 -> /\ task.claude_status = "idle"
                      /\ Cardinality(CallsOf("post_tool")) = 1
                      /\ \A i \in CallsOf("post_tool") : hook_calls[i].file_path = "a.py"
                      /\ task.stack_name = "stack-7"
                      /\ stack_discovered["t1"]
                      /\ Cardinality(CallsOf("commit_to_stack")) = 1
                      /\ \A i \in CallsOf("commit_to_stack") :
                            hook_calls[i].file_path = "stack-7"
          [] k = 6 -> task.status = "waiting" /\ task.permission_prompt # None
          [] k = 7 -> task.permission_prompt = None
          [] k = 8 -> task.status = "running"
          [] k = 9 -> task.status = "completed" /\ ~session["t1"]
          [] OTHER -> TRUE

\* C13: the end-to-end scenario, taken step by step from a pending task,
\* produces after each step the state the scenario names for it.
C13_Scenario == script.on => ScenarioResult(script.step)

\* The whole scenario has been run in order.
C13_Witness == script.on /\ script.step = 9 /\ tasks["t1"].status = "completed"

\* ----------------------------------------------------------------- engine
\* The supervising loop of JsonMonitor.start and the watcher coroutines it
\* creates, one step per stretch of code between two awaits.  An asyncio
\* task is "live" from its creation, "cancelled" between cancel() and the
\* moment the event loop runs it again, and "done" after that or after its
\* coroutine returned.
lifecycleFrame == <<tasks, session, use_json_mode, response, monitorVars, pollerVars>>

live(ws) == {i \in DOMAIN ws : ws[i] # "done"}

\* A supervising loop that does not look at the watcher it registered.
needs_watcher_always(ws) == TRUE

\* task.id not in self._tasks or self._tasks[task.id].done(): _tasks holds
\* the watcher created last for the task.
needs_watcher(ws) == ws = <<>> \/ ws[Len(ws)] = "done"

\* asyncio.create_task(monitor.start()) and the first statement of start.
start_call ==
    /\ monitor_running' = TRUE
    /\ start_loops' = start_loops + 1
    /\ UNCHANGED <<scrollback, printed, last_event_count, handled, watcher_tasks>>
    /\ UNCHANGED lifecycleFrame

\* One iteration of "while self._running" in JsonMonitor.start.
start_loop ==
    /\ start_loops > 0
    /\ monitor_running
    /\ watcher_tasks' = [t \in Tasks |->
          IF Running(t) /\ needs_watcher(watcher_tasks[t])
          THEN Append(watcher_tasks[t], "live")
          ELSE watcher_tasks[t]]
    /\ UNCHANGED <<scrollback, printed, last_event_count, handled, monitor_running,
                   start_loops>>
    /\ UNCHANGED lifecycleFrame

\* A start coroutine wakes up, finds _running false and returns.
start_loop_exit ==
    /\ start_loops > 0
    /\ ~monitor_running
    /\ start_loops' = start_loops - 1
    /\ UNCHANGED <<scrollback, printed, last_event_count, handled, monitor_running,
                   watcher_tasks>>
    /\ UNCHANGED lifecycleFrame

\* JsonMonitor.stop: the flag is cleared and cancel() is called on the
\* watchers in _tasks; nothing is awaited.
monitor_stop ==
    /\ monitor_running' = FALSE
    /\ watcher_tasks' = [t \in Tasks |->
          IF watcher_tasks[t] # <<>> /\ watcher_tasks[t][Len(watcher_tasks[t])] = "live"
          THEN [watcher_tasks[t] EXCEPT ![Len(watcher_tasks[t])] = "cancelled"]
          ELSE watcher_tasks[t]]
    /\ UNCHANGED <<scrollback, printed, last_event_count, handled, start_loops>>
    /\ UNCHANGED lifecycleFrame

\* The event loop runs a cancelled watcher: CancelledError ends it.
watcher_cancelled(t, i) ==
    /\ i \in DOMAIN watcher_tasks[t]
    /\ watcher_tasks[t][i] = "cancelled"
    /\ watcher_tasks' = [watcher_tasks EXCEPT ![t][i] = "done"]
    /\ UNCHANGED <<scrollback, printed, last_event_count, handled, monitor_running,
                   start_loops>>
    /\ UNCHANGED lifecycleFrame

\* events[previous_count:]
new_events(events, previous_count) ==
    IF previous_count >= Len(events) THEN <<>>
    ELSE SubSeq(events, previous_count + 1, Len(events))

\* One iteration of "while self._running" in watcher i of task t.  capture
\* is the outcome of capture_json_events when the session exists: the rows
\* of the pane ("ok"), an empty string ("empty") or an exception ("error").
\* The events of the model have no "type", so _handle_event leaves the Task
\* alone.
watcher_cycle(t, i, capture) ==
    /\ i \in DOMAIN watcher_tasks[t]
    /\ watcher_tasks[t][i] = "live"
    /\ IF ~monitor_running \/ ~session_exists(t)
       THEN /\ watcher_tasks' = [watcher_tasks EXCEPT ![t][i] = "done"]
            /\ UNCHANGED <<last_event_count, handled>>
       ELSE LET events == parse_output(scrollback[t])
                new == new_events(events, last_event_count[t])
            IN  /\ UNCHANGED watcher_tasks
                /\ IF capture = "ok" /\ new # <<>>
                   THEN /\ handled' = [handled EXCEPT ![t] = @ \o new]
                        /\ last_event_count' =
                              [last_event_count EXCEPT ![t] = Len(events)]
                   ELSE UNCHANGED <<last_event_count, handled>>
    /\ UNCHANGED <<scrollback, printed, monitor_running, start_loops>>
    /\ UNCHANGED lifecycleFrame

\* The agent prints one event on one line; the pane, w columns wide, shows
\* it as rows.
agent_prints(t, text, w) ==
    /\ session_exists(t)
    /\ scrollback' = [scrollback EXCEPT ![t] = @ \o wrap(text, w)]
    /\ printed' = [printed EXCEPT ![t] = Append(@, json_loads(text).data)]
    /\ UNCHANGED <<last_event_count, handled, monitor_running, start_loops,
                   watcher_tasks>>
    /\ UNCHANGED lifecycleFrame

\* ---------------------------------------------------- engine specification
\* One task is started and completed while the monitor is started and
\* stopped, its watchers run and its agent prints events: a flat object and
\* an object with a nested object, on a pane that holds either on one row or
\* is PaneWidths columns wide.
MaxPrinted == 2
MaxWatchers == 2
MaxLoops == 1

FlatEvent == <<"{", Quote, "a", Quote, "}">>
NestedEvent == <<"{", Quote, Quote, "{", "}", "}">>
EngineEvents == {FlatEvent, NestedEvent}
PaneWidths == {3, Len(NestedEvent)}
Captures == {"ok", "empty", "error"}

NextEngine ==
    \/ /\ \/ start_task("t1", "created", TRUE)
          \/ complete_task("t1")
       /\ UNCHANGED otherVars
    \/ /\ \/ start_loops < MaxLoops /\ start_call
          \/ /\ \A t \in Tasks : Len(watcher_tasks[t]) < MaxWatchers
             /\ start_loop
          \/ start_loop_exit
          \/ monitor_stop
          \/ \E i \in 1..MaxWatchers : watcher_cancelled("t1", i)
          \/ \E i \in 1..MaxWatchers, c \in Captures : watcher_cycle("t1", i, c)
          \/ \E e \in EngineEvents, w \in PaneWidths :
                /\ Len(printed["t1"]) < MaxPrinted
                /\ agent_prints("t1", e, w)
       /\ UNCHANGED <<parserVars, script, loopVars, batchVars>>

SpecEngine == Init /\ [][NextEngine]_vars

IsPrefix(a, b) == Len(a) <= Len(b) /\ a = SubSeq(b, 1, Len(a))

\* C14: the events the monitor has handled for a task are a prefix of the
\* events its agent printed, and a watcher cycle with a successful capture
\* leaves none of them unhandled.
C14_HandledOnceInOrder ==
    [][\A t \in Tasks :
          /\ IsPrefix(handled'[t], printed'[t])
          /\ (\E i \in 1..MaxWatchers : watcher_cycle(t, i, "ok") /\ monitor_running
                                        /\ session_exists(t))
                => handled'[t] = printed'[t]]_vars

\* The same for panes wide enough to show every event on one row.
OneRowPerEvent(t) ==
    Len(scrollback[t]) = Len(printed[t])

C14_HandledOnceWhenUnwrapped ==
    [][\A t \in Tasks :
          OneRowPerEvent(t)' =>
            /\ IsPrefix(handled'[t], printed'[t])
            /\ (\E i \in 1..MaxWatchers : watcher_cycle(t, i, "ok") /\ monitor_running
                                          /\ session_exists(t))
                  => handled'[t] = printed'[t]]_vars

\* C15: a task never has more than one watcher that has not finished.
C15_OneWatcherPerTask ==
    \A t \in Tasks : Cardinality(live(watcher_tasks[t])) <= 1

\* The first watcher of the task has finished and the supervising loop has
\* created a second one.
C15_Witness ==
    /\ Len(watcher_tasks["t1"]) = 2
    /\ watcher_tasks["t1"][1] = "done"
    /\ watcher_tasks["t1"][2] = "live"

\* C17: when JsonMonitor.stop returns, the start loop and every watcher
\* have exited.
C17_StoppedMeansExited ==
    [][monitor_stop =>
          /\ start_loops' = 0
          /\ \A t \in Tasks : live(watcher_tasks'[t]) = {}]_vars

\* C16: a watcher of a task whose status is completed or failed is about to
\* exit: the session it captures is gone, so its next cycle leaves the loop.
C16_WatcherExitsAfterTerminal ==
    \A t \in Tasks :
        watchers[t] /\ tasks[t].status \in Terminal => ~session_exists(t)

\* -------------------------------------------------------- poller lifecycle
\* StatusPoller.start
poller_start ==
    /\ IF poller_running
       THEN UNCHANGED loopVars
       ELSE /\ poller_running' = TRUE
            /\ poll_loops' = poll_loops + 1
    /\ UNCHANGED <<tasks, session, use_json_mode, response, monitorVars, pollerVars>>

\* StatusPoller.stop up to its await: the flag is cleared and the caller
\* waits for the loop created last.
poller_stop ==
    /\ poller_running' = FALSE
    /\ UNCHANGED poll_loops
    /\ UNCHANGED <<tasks, session, use_json_mode, response, monitorVars, pollerVars>>

\* A _poll_loop coroutine starts or wakes from its sleep, finds _running
\* false and returns.
poll_loop_exit ==
    /\ poll_loops > 0
    /\ ~poller_running
    /\ poll_loops' = poll_loops - 1
    /\ UNCHANGED poller_running
    /\ UNCHANGED <<tasks, session, use_json_mode, response, monitorVars, pollerVars>>

\* A _poll_loop coroutine starts or wakes from its sleep, finds _running
\* true and runs one poll cycle.
poll_loop_cycle(out, over) ==
    /\ poll_loops > 0
    /\ poller_running
    /\ _poll_once(out, over)
    /\ UNCHANGED <<poll_window, loopVars>>

\* The rows of the select of a poll cycle come in the order of creation.
poll_order == <<"t1", "t2">>

polled_before(bad) ==
    {poll_order[i] : i \in {j \in DOMAIN poll_order :
                               /\ polled(poll_order[j])
                               /\ \E k \in DOMAIN poll_order :
                                     j < k /\ poll_order[k] = bad}}

\* StatusPoller._poll_once when detect_status raises for task bad (tmux
\* cannot be run): the tasks before it have been reconciled in memory and
\* counted, the exception leaves the session block before db.commit() and is
\* logged by the handler around the whole cycle.
_poll_once_raising(out, over, bad) ==
    LET seen == polled_before(bad)
        det(t) == detect_status(t, out[t])
    IN  /\ polled(bad)
        /\ UNCHANGED tasks
        /\ orphan_cleanups' = orphan_cleanups +
              Cardinality({t \in seen : is_orphan_cleanup(tasks[t], det(t))})
        /\ correction_count' = correction_count +
              Cardinality({t \in seen : is_correction(tasks[t], det(t))})
        /\ frozen_warnings' = frozen_warnings +
              Cardinality({t \in seen : det(t) = "busy" /\ t \in last_busy_check /\ over[t]})
        /\ last_busy_check' =
              (last_busy_check \cup {t \in seen : det(t) = "busy"})
                 \ {t \in seen : det(t) \notin {None, "busy"}}
        /\ UNCHANGED <<session, use_json_mode, response, monitorVars>>

poll_loop_cycle_raising(out, over, bad) ==
    /\ poll_loops > 0
    /\ poller_running
    /\ _poll_once_raising(out, over, bad)
    /\ UNCHANGED <<poll_window, loopVars>>

\* --------------------------------------------------- poller specification
\* Legacy mode: both tasks are started, their sessions may die, and the
\* poller is started and stopped in any order while its loops run cycles.
MaxPollLoops == 2

InitLegacy == Init /\ ~use_json_mode

countersBounded ==
    /\ correction_count < MaxCount
    /\ orphan_cleanups < MaxCount
    /\ frozen_warnings < MaxCount

NextPoller ==
    \/ /\ \/ \E t \in Tasks : start_task(t, "created", TRUE)
          \/ \E t \in Tasks : SessionDies(t)
       /\ UNCHANGED otherVars
    \/ /\ \/ poll_loops < MaxPollLoops /\ poller_start
          \/ poller_stop
          \/ poll_loop_exit
          \/ \E out \in [Tasks -> Outputs], over \in [Tasks -> BOOLEAN] :
                countersBounded /\ poll_loop_cycle(out, over)
          \/ \E out \in [Tasks -> Outputs], over \in [Tasks -> BOOLEAN], bad \in Tasks :
                countersBounded /\ poll_loop_cycle_raising(out, over, bad)
       /\ UNCHANGED <<parserVars, script, engineVars, batchVars>>

SpecPoller == InitLegacy /\ [][NextPoller]_vars

\* C18: at most one poll loop is alive at any time.
C18_OnePollLoop == poll_loops <= 1

\* C19: when reconciling one task raises in a poll cycle, every other task
\* the cycle looks at is reconciled and stored as in a cycle without the
\* exception.
C19_ErrorIsolated ==
    [][\A out \in [Tasks -> Outputs], over \in [Tasks -> BOOLEAN], bad \in Tasks :
          poll_loop_cycle_raising(out, over, bad) =>
             \A t \in Tasks \ {bad} :
                polled(t) => tasks'[t] = poll_task(tasks[t], detect_status(t, out[t]))]_vars

\* ------------------------------------------------------------ event batch
\* A tool_use event whose "toolInput" is null: event.data.get("toolInput",
\* {}) returns None and _format_event_log raises AttributeError on
\* None.get, before _handle_event has touched the Task.  NullInput stands in
\* the file_path slot of such an event.
NullInput == "toolInput: null"
BadToolUse ==
    [type |-> "tool_use", id |-> "tu3", toolName |-> "Edit", file_path |-> NullInput]

raises(ev) == ev.type = "tool_use" /\ ev.file_path = NullInput

\* The Task, the tool_use buffer, the stack flag and the GitButler calls
\* after _handle_event has handled ev without an exception.
handle_good(st, ev, gb) ==
    [rec |-> handle_event_task(st.rec, ev, st.buf, st.discovered, gb),
     buf |-> IF ev.type = "tool_use"
             THEN push_tool_use(st.buf, [id |-> ev.id, toolName |-> ev.toolName,
                                         file_path |-> ev.file_path])
             ELSE st.buf,
     discovered |->
        IF ev.type = "tool_result"
        THEN LET i == find_tool_use(st.buf, ev.toolUseId)
             IN  \/ st.discovered
                 \/ /\ i # 0
                    /\ is_successful_edit(st.buf[i], ev)
                    /\ post_tool_calls(st.rec, st.buf[i], st.discovered, gb).found
        ELSE st.discovered,
     calls |-> handle_event_calls(st.rec, ev, st.buf, st.discovered, gb)]

\* A watcher whose loop over the new events ends at the first exception.
RECURSIVE handle_batch_abort(_, _, _, _)
handle_batch_abort(st, batch, i, gb) ==
    IF i > Len(batch) \/ raises(batch[i]) THEN st
    ELSE handle_batch_abort(handle_good(st, batch[i], gb), batch, i + 1, gb)

\* for event in new_events: await self._handle_event(task_id, event), from
\* the i-th event on.  _handle_event catches the exception of an event and
\* logs it.
RECURSIVE handle_batch(_, _, _, _)
handle_batch(st, batch, i, gb) ==
    IF i > Len(batch) THEN st
    ELSE handle_batch(IF raises(batch[i])
                      THEN [st EXCEPT !.calls = <<>>]
                      ELSE handle_good(st, batch[i], gb),
                      batch, i + 1, gb)

tool_uses_of(batch) ==
    SelectSeq(batch, LAMBDA ev : ev.type = "tool_use")

\* JsonMonitor._monitor_task, one cycle of the watcher of task t whose
\* capture holds the new events batch.
watcher_batch(t, batch, gb) ==
    LET st == handle_batch([rec |-> tasks[t], buf |-> recent_tool_uses[t],
                            discovered |-> stack_discovered[t], calls |-> <<>>],
                           batch, 1, gb)
        uses == tool_uses_of(batch)
    IN  /\ watchers[t]
        /\ session_exists(t)
        /\ batch # <<>>
        /\ last_batch' = [task |-> t, events |-> batch]
        /\ tasks' = [tasks EXCEPT ![t] = st.rec]
        /\ recent_tool_uses' = [recent_tool_uses EXCEPT ![t] = st.buf]
        /\ stack_discovered' = [stack_discovered EXCEPT ![t] = st.discovered]
        /\ hook_calls' = st.calls
        /\ tool_use_log' = [tool_use_log EXCEPT ![t] =
              @ \o [i \in 1..Len(uses) |->
                      [id |-> uses[i].id, toolName |-> uses[i].toolName,
                       file_path |-> uses[i].file_path]]]
        /\ UNCHANGED <<session, use_json_mode, response, watchers, pollerVars>>

\* JsonMonitor._monitor_task, one cycle of the watcher of task t in which
\* the capture raises an exception that does not say "not found": it is
\* logged and the watcher sleeps.
watcher_cycle_error(t) ==
    /\ watchers[t]
    /\ session_exists(t)
    /\ UNCHANGED <<tasks, session, use_json_mode, response, monitorVars, pollerVars>>

\* ----------------------------------------------------- batch specification
\* JSON mode: both tasks are started and watched.  A cycle of either watcher
\* may fail to capture or find the session gone; a cycle of the watcher of
\* t1 may find a batch of up to MaxBatch new events.
MaxBatch == 2

BatchEvents ==
    {BadToolUse, [type |-> "session_start", session_id |-> "s1"], [type |-> "text"]}
    \cup PermissionEvents

Batches == UNION {[1..n -> BatchEvents] : n \in 1..MaxBatch}

InitJson == Init /\ use_json_mode

NextBatch ==
    \/ /\ \/ \E t \in Tasks : start_task(t, "created", TRUE)
          \/ monitor_start
          \/ \E t \in Tasks : SessionDies(t)
          \/ \E t \in Tasks : _monitor_task_not_found(t)
          \/ \E t \in Tasks : watcher_cycle_error(t)
       /\ UNCHANGED otherVars
    \/ /\ \E t \in One, batch \in Batches :
             /\ Len(tool_use_log[t]) + Len(tool_uses_of(batch)) <= MaxToolUses
             /\ watcher_batch(t, batch, GbOk)
       /\ UNCHANGED <<parserVars, script, engineVars, loopVars>>

SpecBatch == InitJson /\ [][NextBatch]_vars

\* The Task after the events have been handled one after the other, none of
\* them raising.
RECURSIVE handle_all(_, _, _, _)
handle_all(st, events, i, gb) ==
    IF i > Len(events) THEN st
    ELSE handle_all(handle_good(st, events[i], gb), events, i + 1, gb)

\* C20: a watcher cycle leaves the Task as if the events of its batch that
\* raise were not there: every event after a raising one is handled and
\* stored.  A watcher cycle that ends in an exception, whether the watcher
\* exits on it or not, leaves the watcher and the Task of every other task
\* as they were.
C20_ExceptionIsolated ==
    [][/\ \A t \in One, batch \in Batches :
             watcher_batch(t, batch, GbOk) =>
                /\ tasks'[t] =
                      handle_all([rec |-> tasks[t], buf |-> recent_tool_uses[t],
                                  discovered |-> stack_discovered[t], calls |-> <<>>],
                                 SelectSeq(batch, LAMBDA ev : ~raises(ev)), 1, GbOk).rec
                /\ \A u \in Tasks \ {t} :
                      tasks'[u] = tasks[u] /\ watchers'[u] = watchers[u]
       /\ \A t \in Tasks :
             (_monitor_task_not_found(t) \/ watcher_cycle_error(t)) =>
                \A u \in Tasks \ {t} :
                   tasks'[u] = tasks[u] /\ watchers'[u] = watchers[u]]_vars

\* The watcher of t1 has handled a batch whose first event raised and whose
\* second asked for permission, while t2 has a watcher too.
C20_Witness ==
    /\ last_batch = [task |-> "t1",
                     events |-> <<BadToolUse,
                                  [type |-> "permission_request",
                                   prompt |-> "Permission requested"]>>]
    /\ tasks["t1"].status = "waiting"
    /\ tasks["t1"].permission_prompt = "Permission requested"
    /\ watchers["t2"]

\* ------------------------------------------------- event specification
\* JSON mode: one task is started and watched; each watcher cycle finds one
\* new event of any type.  tool_use events name a file-editing tool or
\* another one, with or without a file path.  Every GitButler call of the
\* event may return or raise: the pre-tool hook (pre), the post-tool hook
\* (post), stack discovery (stack) and the commit (commit).  The exceptions
\* of the pre-tool hook and of the commit are caught with nothing left to
\* do in their try blocks, so only post and stack are read.
HookOutcomes ==
    [pre : {"ok", "raise"}, post : {"ok", "raise"},
     stack : {None, "stack-7", "raise"}, commit : {"ok", "raise"}]

HookEvents ==
    ToolUseEvents({"tu1"}, {"Edit", "Read"}, {"a.py", None})
    \cup ToolResultEvents({"tu1"})

SingleEvents ==
    SessionStartEvents \cup ResultEvents \cup PlainEvents \cup PermissionEvents
    \cup HookEvents

NextEvents ==
    \/ /\ \/ \E gb \in StackOutcomes : start_task("t1", gb, TRUE)
          \/ monitor_start
       /\ UNCHANGED otherVars
    \/ /\ \E ev \in SingleEvents, gb \in HookOutcomes :
             /\ Len(tool_use_log["t1"]) + Len(tool_uses_of(<<ev>>)) <= MaxToolUses
             /\ watcher_batch("t1", <<ev>>, gb)
       /\ UNCHANGED <<parserVars, script, engineVars, loopVars>>

SpecEvents == InitJson /\ [][NextEvents]_vars

\* The watcher of t1 handles the single new event ev.
Handles(ev) ==
    /\ last_batch' = [task |-> "t1", events |-> <<ev>>]
    /\ \E gb \in HookOutcomes : watcher_batch("t1", <<ev>>, gb)

\* C21: whatever GitButler calls fail while a tool_use or tool_result is
\* handled, the agent status is stored as busy after the tool_use and as
\* idle after the tool_result.
C21_StatusDespiteHookFailure ==
    [][\A ev \in HookEvents :
          Handles(ev) =>
             tasks'["t1"].claude_status =
                IF ev.type = "tool_use" THEN "busy" ELSE "idle"]_vars

\* The post-tool hook of the edit raised: it is the only call made, and the
\* agent status is idle.
C21_Witness ==
    /\ last_batch.events # <<>>
    /\ last_batch.events[1].type = "tool_result"
    /\ Len(hook_calls) = 1
    /\ hook_calls[1].call = "post_tool"
    /\ tasks["t1"].claude_status = "idle"

\* C25: a session_start event sets the agent status to idle and takes a
\* waiting task back to running with its prompt cleared, with or without a
\* session id in its payload; the session id is stored when there is one.
C25_SessionStartAlways ==
    [][\A ev \in SessionStartEvents :
          Handles(ev) =>
             /\ tasks'["t1"].claude_status = "idle"
             /\ tasks["t1"].status = "waiting" =>
                   /\ tasks'["t1"].status = "running"
                   /\ tasks'["t1"].permission_prompt = None
             /\ ev.session_id # None =>
                   tasks'["t1"].claude_session_id = ev.session_id]_vars

\* Event types with no case of their own in _handle_event.
OtherTypes == {"user", "system", "error"}

\* C26: an event of a type the monitor has no case for leaves the Task as
\* it is.
C26_OtherEventsNoChange ==
    [][\A ev \in {e \in PlainEvents : e.type \in OtherTypes} :
          Handles(ev) => tasks' = tasks]_vars

\* A system event was handled while the task was waiting for permission.
C26_Witness ==
    /\ last_batch = [task |-> "t1", events |-> <<[type |-> "system"]>>]
    /\ tasks["t1"].status = "waiting"
    /\ tasks["t1"].permission_prompt # None

\* C27: a tool_use event makes the monitor call the pre-tool hook once, with
\* the path and the tool of the event, when the tool is Edit, Write or
\* MultiEdit and the event has a file path; otherwise no call is made.
C27_PreToolHook ==
    [][\A ev \in {e \in HookEvents : e.type = "tool_use"} :
          Handles(ev) =>
             hook_calls' =
                IF ev.toolName \in {"Edit", "Write", "MultiEdit"} /\ ev.file_path # None
                THEN <<[call |-> "pre_tool", file_path |-> ev.file_path,
                        tool_name |-> ev.toolName]>>
                ELSE <<>>]_vars

\* A Read of a.py was handled without a call.
C27_Witness ==
    /\ last_batch = [task |-> "t1",
                     events |-> <<[type |-> "tool_use", id |-> "tu1",
                                   toolName |-> "Read", file_path |-> "a.py"]>>]
    /\ hook_calls = <<>>
    /\ tasks["t1"].claude_status = "busy"

\* The tool_result ev is paired with a file edit in the buffer and is no
\* error.
SuccessfulEdit(ev) ==
    LET i == find_tool_use(recent_tool_uses["t1"], ev.toolUseId)
    IN  i # 0 /\ is_successful_edit(recent_tool_uses["t1"][i], ev)

\* C28: when the tool_result of a successful file edit is handled, stack
\* discovery is attempted only if the task has no stack yet, and a stack
\* the task has is kept.
C28_LazyStack ==
    [][\A ev \in ToolResultEvents({"tu1"}) :
          (Handles(ev) /\ SuccessfulEdit(ev))
          => /\ (\E k \in DOMAIN hook_calls' : hook_calls'[k].call = "discover_stack")
                   => tasks["t1"].stack_name = None
             /\ tasks["t1"].stack_name # None =>
                   tasks'["t1"].stack_name = tasks["t1"].stack_name]_vars

AgentSessions == {"s1", "s2"}

NextHookCalls ==
    \/ \E t \in Tasks : start_task(t, "created", TRUE) /\ UNCHANGED otherVars
    \/ \E sid \in AgentSessions, c \in BOOLEAN :
          hook_session_start(sid, c) /\ UNCHANGED otherVars
    \/ \E sid \in AgentSessions : hook_permission_request(sid) /\ UNCHANGED otherVars
    \/ \E sid \in AgentSessions : hook_stop(sid) /\ UNCHANGED otherVars

SpecHookCalls == Init /\ [][NextHookCalls]_vars

\* The Task after the monitor has handled the event.
AfterEvent(t, ev) ==
    handle_event_task(tasks[t], ev, recent_tool_uses[t], stack_discovered[t], GbOk)

SameStatus(a, b) ==
    /\ a.status = b.status
    /\ a.claude_status = b.claude_status
    /\ a.claude_session_id = b.claude_session_id
    /\ (a.permission_prompt = None) <=> (b.permission_prompt = None)

\* C23: the SessionStart hook leaves the task it maps the session to as the
\* session_start event with the same session id would, and the
\* PermissionRequest hook leaves its task as the permission_request event
\* would.
C23_HookAsEvent ==
    [][/\ \A sid \in AgentSessions, c \in BOOLEAN :
             (hook_session_start(sid, c) /\ response' = OK)
             => \A t \in Tasks :
                   tasks'[t] # tasks[t] =>
                      SameStatus(tasks'[t],
                                 AfterEvent(t, [type |-> "session_start",
                                                session_id |-> sid]))
       /\ \A sid \in AgentSessions :
             (hook_permission_request(sid) /\ response' = OK)
             => \A t \in Tasks :
                   tasks'[t] # tasks[t] =>
                      SameStatus(tasks'[t],
                                 AfterEvent(t, [type |-> "permission_request",
                                                prompt |-> HookPrompt]))]_vars

\* C24: the SessionStart hook changes only a task that is running and has
\* no session id yet, and the session id of a task that has one stays.
C24_SessionStartOnlyUnmapped ==
    [][\A sid \in AgentSessions, c \in BOOLEAN :
          (hook_session_start(sid, c) /\ response' = OK)
          => \A t \in Tasks :
                /\ tasks'[t] # tasks[t] =>
                      /\ tasks[t].status = "running"
                      /\ tasks[t].claude_session_id = None
                /\ tasks[t].claude_session_id # None =>
                      tasks'[t].claude_session_id = tasks[t].claude_session_id]_vars

\* C29: a poll cycle leaves alone every task that is not running or waiting
\* or has no tmux session recorded, and every task whose detected agent
\* status is the stored one; when no task it looks at disagrees, the
\* correction counter stays.
C29_AgreeingUntouched ==
    [][\A out \in [One -> Outputs], over \in [One -> BOOLEAN] :
          _poll_once(out, over) =>
             /\ \A t \in Tasks :
                   (\/ tasks[t].status \notin {"running", "waiting"}
                    \/ tasks[t].tmux_session = None
                    \/ detect_status(t, out[t]) = tasks[t].claude_status)
                   => tasks'[t] = tasks[t]
             /\ (\A t \in Tasks :
                    (tasks[t].status \in {"running", "waiting"}
                       /\ tasks[t].tmux_session # None)
                    => detect_status(t, out[t]) \in {None, tasks[t].claude_status})
                => correction_count' = correction_count]_vars

\* A run of poll cycles began with idle stored for t1, every cycle of it
\* saw the idle prompt, and no correction was counted; t2 was never started.
C29_Witness ==
    /\ poll_window.kind = "idle"
    /\ poll_window.cycles >= 2
    /\ poll_window.stored = "idle"
    /\ correction_count = poll_window.corrections
    /\ tasks["t1"].claude_status = "idle"
    /\ tasks["t2"].status = "pending"

\* C30: a poll cycle that detects an agent status other than the stored one
\* stores it; the task becomes waiting when the detected status is waiting,
\* running when it was waiting and the detected status is idle, and keeps
\* its status otherwise.
C30_CorrectionDerivesStatus ==
    [][\A out \in [One -> Outputs], over \in [One -> BOOLEAN] :
          _poll_once(out, over) =>
             \A t \in One :
                LET detected == detect_status(t, out[t])
                IN  (polled(t) /\ detected # None
                       /\ detected # tasks[t].claude_status)
                    => /\ tasks'[t].claude_status = detected
                       /\ tasks'[t].status =
                             IF detected = "waiting" THEN "waiting"
                             ELSE IF tasks[t].status = "waiting" /\ detected = "idle"
                             THEN "running"
                             ELSE tasks[t].status]_vars

\* The task was waiting with a prompt and the poller, seeing the idle
\* prompt, took it back to running; only the poller does that without
\* clearing the prompt.
C30_Witness ==
    /\ tasks["t1"].status = "running"
    /\ tasks["t1"].claude_status = "idle"
    /\ tasks["t1"].permission_prompt # None
    /\ correction_count = 1

\* ------------------------------------------------ poll cycle specification
\* Legacy mode: one task is started, its agent calls the hooks, its session
\* may die, and poll cycles follow one another; the counters are bounded by
\* MaxCorrections.
MaxCorrections == 2

NextPollCycles ==
    \/ start_task("t1", "created", TRUE) /\ UNCHANGED otherVars
    \/ SessionDies("t1") /\ UNCHANGED otherVars
    \/ HookStep /\ UNCHANGED otherVars
    \/ \E out \in [One -> Outputs], over \in [One -> BOOLEAN] :
          /\ correction_count < MaxCorrections
          /\ orphan_cleanups < MaxCorrections
          /\ frozen_warnings < MaxCorrections
          /\ _poll_once(out, over)
          /\ UNCHANGED poll_window
          /\ UNCHANGED otherVars

SpecPollCycles == InitLegacy /\ [][NextPollCycles]_vars

C32_DetectedStatus ==
    [][\A out \in [One -> Outputs], over \in [One -> BOOLEAN] :
          _poll_once(out, over) =>
             \A t \in One :
                polled(t) =>
                   tasks'[t].claude_status =
                      IF ~session_exists(t) \/ out[t].empty THEN "stopped"
                      ELSE IF out[t].waiting THEN "waiting"
                      ELSE IF out[t].idle THEN "idle"
                      ELSE "busy"]_vars

\* The poller found a waiting pattern on the pane of a task that no hook
\* has mapped to a session, and made it waiting.
C32_Witness ==
    /\ tasks["t1"].status = "waiting"
    /\ tasks["t1"].claude_status = "waiting"
    /\ tasks["t1"].claude_session_id = None
    /\ tasks["t1"].permission_prompt = None
    /\ correction_count = 1

\* ------------------------------------------------- two watched tasks
\* Both tasks are started and watched.  Their agents print tool_use events
\* that all carry the id tu1 (an edit of a.py, a write of b.py, a read) and
\* tool_result events for tu1; the watchers interleave event by event, and
\* poll cycles run in between.
SameIdUses ==
    {EditUse,
     [type |-> "tool_use", id |-> "tu1", toolName |-> "Write", file_path |-> "b.py"],
     [type |-> "tool_use", id |-> "tu1", toolName |-> "Read", file_path |-> None]}

SameIdEvents == SameIdUses \cup ToolResultEvents({"tu1"})

NextTwoWatchers ==
    \/ \E t \in Tasks : start_task(t, "created", TRUE) /\ UNCHANGED otherVars
    \/ monitor_start /\ UNCHANGED otherVars
    \/ \E t \in Tasks, ev \in SameIdEvents :
          /\ ev.type = "tool_use" => Len(tool_use_log[t]) < MaxToolUses
          /\ _monitor_task(t, ev, GbOk)
          /\ UNCHANGED otherVars
    \/ \E out \in [Tasks -> {IdleOutput}], over \in [Tasks -> {FALSE}] :
          /\ correction_count < MaxCount
          /\ _poll_once(out, over)
          /\ UNCHANGED poll_window
          /\ UNCHANGED otherVars

SpecTwoWatchers == InitJson /\ [][NextTwoWatchers]_vars

\* C33: an event of task t leaves the buffer and the record of the other
\* task alone, and a tool_result of task t calls the post-tool hook exactly
\* when the latest tool_use with its id that t's own agent printed is a
\* successful file edit, with that edit's path, whatever the other task
\* printed under the same id; a poll cycle leaves every buffer as it is.
C33_BufferPerTask ==
    [][/\ \A t \in Tasks, ev \in SameIdEvents :
             _monitor_task(t, ev, GbOk) =>
                /\ \A u \in Tasks \ {t} :
                      /\ recent_tool_uses'[u] = recent_tool_uses[u]
                      /\ tasks'[u] = tasks[u]
                /\ ev.type = "tool_result" =>
                      LET i == LatestUse(t, ev.toolUseId)
                          own == /\ i # 0
                                 /\ tool_use_log[t][i].toolName \in FileEditTools
                                 /\ tool_use_log[t][i].file_path # None
                                 /\ ~ev.isError
                      IN  /\ (PostToolCalls(hook_calls') # {}) <=> own
                          /\ \A k \in PostToolCalls(hook_calls') :
                                hook_calls'[k].file_path = tool_use_log[t][i].file_path
       /\ \A out \in [Tasks -> {IdleOutput}], over \in [Tasks -> {FALSE}] :
             _poll_once(out, over) => recent_tool_uses' = recent_tool_uses]_vars

\* Task t1 printed an edit and task t2 a read under the same id; the
\* tool_result of t2 has just been handled and called no hook.
C33_Witness ==
    /\ Len(recent_tool_uses["t1"]) = 1
    /\ recent_tool_uses["t1"][1].toolName = "Edit"
    /\ Len(recent_tool_uses["t2"]) = 1
    /\ recent_tool_uses["t2"][1].toolName = "Read"
    /\ recent_tool_uses["t2"][1].id = recent_tool_uses["t1"][1].id
    /\ tasks["t1"].claude_status = "busy"
    /\ tasks["t2"].claude_status = "idle"
    /\ hook_calls = <<>>

\* ------------------------------------------------ capture specification
\* JSON mode: one task is started, the monitor is started and never
\* stopped, the agent prints events, the session may die, and every watcher
\* cycle captures rows, nothing or an exception.
NextCapture ==
    \/ /\ \/ start_task("t1", "created", TRUE)
          \/ SessionDies("t1")
       /\ UNCHANGED otherVars
    \/ /\ \/ start_loops < MaxLoops /\ start_call
          \/ /\ \A t \in Tasks : Len(watcher_tasks[t]) < MaxWatchers
             /\ start_loop
          \/ \E i \in 1..MaxWatchers, c \in Captures : watcher_cycle("t1", i, c)
          \/ \E e \in EngineEvents, w \in PaneWidths :
                /\ Len(printed["t1"]) < MaxPrinted
                /\ agent_prints("t1", e, w)
       /\ UNCHANGED <<parserVars, script, loopVars, batchVars>>

SpecCapture == InitJson /\ [][NextCapture]_vars

\* C34: a watcher cycle whose capture fails (it returns nothing, raises, or
\* finds the session gone) is a cycle without new data: the watcher stays
\* alive, and the Task, the processed-event count and the handled events
\* are as before.
C34_FailedCaptureNotFatal ==
    [][\A i \in 1..MaxWatchers, c \in Captures :
          (/\ watcher_cycle("t1", i, c)
           /\ monitor_running
           /\ c # "ok" \/ ~session_exists("t1"))
          => /\ watcher_tasks'["t1"][i] = "live"
             /\ tasks' = tasks
             /\ last_event_count' = last_event_count
             /\ handled' = handled]_vars

\* C35: a task holds a permission prompt only while its status is waiting.
C35_PromptOnlyWhileWaiting ==
    \A t \in Tasks :
       tasks[t].permission_prompt # None => tasks[t].status = "waiting"

\* C36: a restart, continue, send or respond request that fails because
\* the session of the task is not found leaves every Task record as it was.
C36_FailedActionKeepsTask ==
    [][\A t \in One :
          (/\ \/ restart_claude(t)
              \/ continue_task(t)
              \/ send_message(t)
              \/ respond_to_permission(t)
           /\ ~session_exists(t)
           /\ response' = Err500)
          => tasks' = tasks]_vars

\* C37: a poll cycle that finds a waiting task with its session alive and
\* the idle prompt on its pane leaves the task running, whatever agent
\* status was stored.  (When such a cycle leaves the Task as it was, every
\* later cycle with the same capture does so as well.)
C37_IdlePromptEndsWaiting ==
    [][\A out \in [One -> Outputs], over \in [One -> BOOLEAN] :
          (/\ _poll_once(out, over)
           /\ tasks["t1"].status = "waiting"
           /\ session_exists("t1")
           /\ out["t1"] = IdleOutput)
          => tasks'["t1"].status = "running"]_vars

\* The tasks whose stored record a step has changed.
Persisted == {t \in Tasks : tasks'[t] # tasks[t]}

\* C38: a poll cycle, aborted or not, adds to the correction counter the
\* number of tasks with a live session whose record it has changed in
\* storage, and to the orphan counter the number of tasks without a session
\* whose record it has changed.
C38_CountersMatchStorage ==
    [][\A out \in [Tasks -> Outputs], over \in [Tasks -> BOOLEAN] :
          (\/ poll_loop_cycle(out, over)
           \/ \E bad \in Tasks : poll_loop_cycle_raising(out, over, bad))
          => /\ correction_count' - correction_count =
                   Cardinality({t \in Persisted : session_exists(t)})
             /\ orphan_cleanups' - orphan_cleanups =
                   Cardinality({t \in Persisted : ~session_exists(t)})]_vars

\* ------------------------------------------------------ poller termination
\* A poll loop that wakes up with _running false returns: asyncio runs the
\* coroutine again when its sleep is over.
PollLoopExits ==
    poll_loop_exit /\ UNCHANGED <<parserVars, script, engineVars, batchVars>>

SpecPollerFair == SpecPoller /\ WF_vars(PollLoopExits)

\* C39: once stop has cleared the flag of a poller with a loop alive, the
\* loops exit (and stop, which awaits the loop, returns), whatever is
\* called in the meantime.
C39_StopTerminates ==
    [](poll_loops > 0 /\ ~poller_running => <>(poll_loops = 0))

\* C40: no two tasks hold the same agent session id.
C40_SessionIdUnique ==
    \A t, u \in Tasks :
       (t # u /\ tasks[t].claude_session_id # None)
          => tasks[t].claude_session_id # tasks[u].claude_session_id

====
